---- MODULE Spec2Model ----
(***************************************************************************)
(* The timed practice session of components/Practice.tsx: the React state  *)
(* of the Practice component, the question supply and the two backend      *)
(* calls of handleCompletion (test_results insert, increment_user_score).  *)
(*                                                                         *)
(* React semantics kept by the model:                                      *)
(*  - a handler or effect reads the state of the render it was created in  *)
(*    (its closure, parameter c below) and only queues updates (parameter  *)
(*    s below is the state being built by the queued updates);             *)
(*  - a click is a discrete event: its updates are rendered and the        *)
(*    passive effects of that render run before the next event;            *)
(*  - updates made from a timer callback or a promise continuation are     *)
(*    rendered at once, but the passive effects of that render are         *)
(*    deferred (effectPending): they run in a later task, or just before   *)
(*    the next render, whichever comes first.                              *)
(* Optional values (string | null) are <<>> for null and <<x>> for x.      *)
(***************************************************************************)
EXTENDS Integers, Sequences, FiniteSets, TLC

VARIABLES
    topicKey,               \* useParams().topic: None or <<key>>
    user,                   \* useAuth().user: None or <<id>>
    profile,                \* AuthContext profile: None or <<[score |-> n]>>
    testState,
    questions,
    currentQuestionIndex,   \* 0-based, as in the source
    answers,                \* sequence of None / <<option>>
    showExplanation,
    timeLeft,
    saveError,              \* None or <<message>>
    timer,                  \* the armed setTimeout: None or <<value it will set>>
    effectPending,          \* the timer effect of the last render has not run yet
    fetches,                \* generateAptitudeQuestions calls in flight (topic names)
    fetchCount,             \* number of generateAptitudeQuestions calls issued
    sessionNo,              \* number of entries into 'in-progress'
    completions,            \* handleCompletion runs of the current session, and
                            \* earlier ones whose backend calls are in flight
    devices,                \* two-device runs: the Practice component of each device
    profiles,               \* two-device runs: the backend's profiles.score by user id
    served,                 \* two-device runs: the increment_user_score calls executed
    page,                   \* realtime runs: the route element on screen
    channels,               \* realtime runs: the live channels of the supabase client
    held,                   \* realtime runs: the channel of each component's last effect
    pendingEffects,         \* realtime runs: passive effects of the last render not yet run
    subscribed,             \* realtime runs: number of subscribe() calls so far
    dashboard,              \* dashboard runs: the clock, the test_results rows, the
                            \* Dashboard component's state
    auth,                   \* auth runs: the AuthProvider's state and its handlers in
                            \* flight
    board                   \* leaderboard runs: the profiles rows and the Leaderboard
                            \* component's state

vars == <<topicKey, user, profile, testState, questions, currentQuestionIndex,
          answers, showExplanation, timeLeft, saveError, timer, effectPending,
          fetches, fetchCount, sessionNo, completions,
          devices, profiles, served,
          page, channels, held, pendingEffects, subscribed,
          dashboard, auth, board>>

\* the Practice component on screen
practiceVars == <<topicKey, user, profile, testState, questions, currentQuestionIndex,
                  answers, showExplanation, timeLeft, saveError, timer, effectPending,
                  fetches, fetchCount, sessionNo, completions>>

\* the Practice component's own state (what useAuth() gives it left out)
sessionVars == <<topicKey, testState, questions, currentQuestionIndex,
                 answers, showExplanation, timeLeft, saveError, timer, effectPending,
                 fetches, fetchCount, sessionNo, completions>>

\* the backend and the components of two devices, used by SpecDevices only
backendVars == <<devices, profiles, served>>

\* Leaderboard, Community and their channels, used by SpecRealtime only
realtimeVars == <<page, channels, held, pendingEffects, subscribed>>

\* Dashboard, AuthProvider and the Leaderboard's data, each used by its own
\* specification only
pagesVars == <<dashboard, auth, board>>

\* ---------------------------------------------------------------- bounds
MaxQuestions == 2      \* longest question list the supply returns
MaxFetches == 1        \* question-supply calls per run
MaxInFlight == 0       \* backend calls still unanswered when a topic is picked
                       \* or the supply answers
ActiveTail == 1        \* last seconds of a session, in which events interleave with ticks
MaxSubscriptions == 6  \* subscribe() calls per realtime run
MaxResults == 2        \* rows of test_results in a dashboard run
MaxAuthRuns == 3       \* runs of handleAuthChange in an auth run
MaxBoardScore == 1     \* highest score of a profiles row in a leaderboard run

\* ------------------------------------------------------ program constants
StartTime == 300
XPPerCorrect == 100
WindowDays == 7            \* the query's window, Dashboard.tsx line 31
WeekLength == 7            \* the days of the chart, Dashboard.tsx line 53
LowestAccuracyStart == 101 \* Dashboard.tsx line 93
TopN == 10                 \* the leaderboard query's limit, part_003 line 142

None == <<>>
Some(x) == <<x>>

topics == <<
    [name |-> "Quantitative Aptitude", key |-> "quantitative-aptitude"],
    [name |-> "Logical Reasoning",     key |-> "logical-reasoning"],
    [name |-> "Verbal Ability",        key |-> "verbal-ability"],
    [name |-> "General Knowledge",     key |-> "general-knowledge"],
    [name |-> "Data Interpretation",   key |-> "data-interpretation"] >>

Options == {"A", "B"}
Users == {"u1"}

\* topics.find(t => t.key === topicKey): None when there is no such topic
selectedTopic(key) ==
    IF key # None /\ \E i \in 1..Len(topics) : topics[i].key = key[1]
    THEN Some(topics[CHOOSE i \in 1..Len(topics) :
                        /\ topics[i].key = key[1]
                        /\ \A j \in 1..(i-1) : topics[j].key # key[1]])
    ELSE None

\* A question of the supply; its text is abstracted to the topic it was made for.
Question(topicName, correct) ==
    [question |-> topicName, options |-> Options, correctAnswer |-> correct]

RECURSIVE QuestionLists(_, _)
QuestionLists(topicName, n) ==
    IF n = 0 THEN {<<>>}
    ELSE {Append(qs, Question(topicName, o)) :
             qs \in QuestionLists(topicName, n - 1), o \in Options}

\* what generateAptitudeQuestions(topicName, 5) can resolve to
SupplyResults(topicName) ==
    UNION {QuestionLists(topicName, n) : n \in 0..MaxQuestions}

St == [topicKey |-> topicKey, user |-> user, profile |-> profile,
       testState |-> testState, questions |-> questions,
       currentQuestionIndex |-> currentQuestionIndex, answers |-> answers,
       showExplanation |-> showExplanation, timeLeft |-> timeLeft,
       saveError |-> saveError, timer |-> timer, effectPending |-> effectPending,
       fetches |-> fetches, fetchCount |-> fetchCount, sessionNo |-> sessionNo,
       completions |-> completions]

Apply(s) ==
    /\ topicKey' = s.topicKey
    /\ user' = s.user
    /\ profile' = s.profile
    /\ testState' = s.testState
    /\ questions' = s.questions
    /\ currentQuestionIndex' = s.currentQuestionIndex
    /\ answers' = s.answers
    /\ showExplanation' = s.showExplanation
    /\ timeLeft' = s.timeLeft
    /\ saveError' = s.saveError
    /\ timer' = s.timer
    /\ effectPending' = s.effectPending
    /\ fetches' = s.fetches
    /\ fetchCount' = s.fetchCount
    /\ sessionNo' = s.sessionNo
    /\ completions' = s.completions
    /\ UNCHANGED <<backendVars, realtimeVars, pagesVars>>

\* ------------------------------------------------------------- handlers
\* Score counting every answered question
ScoreAnswered(ans, qs) ==
    Cardinality({i \in 1..Len(ans) : i <= Len(qs) /\ ans[i] # None})

\* Score: answers.filter((ans, i) => questions[i] && ans === questions[i].correctAnswer).length
Score(ans, qs) ==
    Cardinality({i \in 1..Len(ans) :
                    /\ i <= Len(qs)
                    /\ ans[i] = Some(qs[i].correctAnswer)})

\* handleCompletion writing the topic's key where the record wants its name
handleCompletionTopicKey(c, s) ==
    IF c.testState = "completed" THEN s
    ELSE LET score == Score(c.answers, c.questions)
             sel == selectedTopic(c.topicKey)
             reports == sel # None /\ c.user # None
         IN [s EXCEPT
               !.testState = "completed",
               !.saveError = None,
               !.completions = Append(@,
                   [session |-> c.sessionNo,
                    score |-> score,
                    total_questions |-> Len(c.questions),
                    topic |-> IF reports THEN sel[1].key ELSE "",
                    user_id |-> c.user,
                    insert |-> IF reports THEN "pending" ELSE "skipped",
                    rpc |-> "none",
                    increment_value |-> 0])]

\* handleCompletion reporting whenever a topic is selected, user or not
handleCompletionNoUserCheck(c, s) ==
    IF c.testState = "completed" THEN s
    ELSE LET score == Score(c.answers, c.questions)
             sel == selectedTopic(c.topicKey)
             reports == sel # None
         IN [s EXCEPT
               !.testState = "completed",
               !.saveError = None,
               !.completions = Append(@,
                   [session |-> c.sessionNo,
                    score |-> score,
                    total_questions |-> Len(c.questions),
                    topic |-> IF reports THEN sel[1].name ELSE "",
                    user_id |-> c.user,
                    insert |-> IF reports THEN "pending" ELSE "skipped",
                    rpc |-> "none",
                    increment_value |-> 0])]

\* handleCompletion, up to its first await: the guard reads the closure's
\* testState; the insert is issued when a topic and a user are present.
handleCompletion(c, s) ==
    IF c.testState = "completed" THEN s
    ELSE LET score == Score(c.answers, c.questions)
             sel == selectedTopic(c.topicKey)
             reports == sel # None /\ c.user # None
         IN [s EXCEPT
               !.testState = "completed",
               !.saveError = None,
               !.completions = Append(@,
                   [session |-> c.sessionNo,
                    score |-> score,
                    total_questions |-> Len(c.questions),
                    topic |-> IF reports THEN sel[1].name ELSE "",
                    user_id |-> c.user,
                    insert |-> IF reports THEN "pending" ELSE "skipped",
                    rpc |-> "none",
                    increment_value |-> 0])]

\* startTest, up to its await: the fetch is issued.
startTest(s, topicName) ==
    [s EXCEPT !.testState = "loading",
              !.saveError = None,
              !.fetches = Append(@, topicName),
              !.fetchCount = @ + 1]

\* resetTest: navigate('/practice') clears the route's topic.
resetTest(s) ==
    [s EXCEPT !.testState = "not-started",
              !.questions = <<>>,
              !.topicKey = None]

\* the effect on [topicKey]
topicEffect(c, s) ==
    IF selectedTopic(c.topicKey) # None
    THEN startTest(s, selectedTopic(c.topicKey)[1].name)
    ELSE resetTest(s)

\* the timer effect re-arming at 0 instead of completing
timerEffectNoExpiry(c, s) ==
    IF c.testState = "in-progress" /\ c.timeLeft >= 0
    THEN [s EXCEPT !.timer = Some(c.timeLeft - 1)]
    ELSE s

\* the effect on [timeLeft, testState], after the cleanup of its last run
timerEffect(c, s) ==
    IF c.testState = "in-progress" /\ c.timeLeft > 0
    THEN [s EXCEPT !.timer = Some(c.timeLeft - 1)]
    ELSE IF c.timeLeft = 0 /\ c.testState = "in-progress"
         THEN handleCompletion(c, s)
         ELSE s

\* handleAnswer pushing the option instead of storing it at the cursor
handleAnswerPush(c, s, option) ==
    [s EXCEPT !.answers = Append(c.answers, Some(option)), !.showExplanation = TRUE]

\* handleAnswer storing the option without opening the explanation
handleAnswerNoExplanation(c, s, option) ==
    [s EXCEPT !.answers = [j \in 1..Len(c.answers) |->
                              IF j = c.currentQuestionIndex + 1 THEN Some(option)
                              ELSE c.answers[j]]]

\* newAnswers[currentQuestionIndex] = option on a copy (a JS array grows when
\* the index is past its end)
handleAnswer(c, s, option) ==
    LET i == c.currentQuestionIndex + 1
        n == IF i > Len(c.answers) THEN i ELSE Len(c.answers)
        newAnswers == [j \in 1..n |->
                          IF j = i THEN Some(option)
                          ELSE IF j <= Len(c.answers) THEN c.answers[j] ELSE None]
    IN [s EXCEPT !.answers = newAnswers, !.showExplanation = TRUE]

\* goToNextQuestion moving the cursor without looking at questions.length
goToNextQuestionNoCheck(c, s) ==
    [s EXCEPT !.showExplanation = FALSE,
              !.currentQuestionIndex = c.currentQuestionIndex + 1]

\* goToNextQuestion leaving the explanation panel open
goToNextQuestionKeepExplanation(c, s) ==
    IF c.currentQuestionIndex < Len(c.questions) - 1
    THEN [s EXCEPT !.currentQuestionIndex = c.currentQuestionIndex + 1]
    ELSE handleCompletion(c, s)

goToNextQuestion(c, s) ==
    LET h == [s EXCEPT !.showExplanation = FALSE]
    IN IF c.currentQuestionIndex < Len(c.questions) - 1
       THEN [h EXCEPT !.currentQuestionIndex = c.currentQuestionIndex + 1]
       ELSE handleCompletion(c, h)

\* ------------------------------------------------- rendering and effects
DepsChanged(prev, cur) ==
    cur.timeLeft # prev.timeLeft \/ cur.testState # prev.testState

\* the deferred timer effect of the last render runs before the next render
FlushPending(c, s) ==
    IF c.effectPending
    THEN timerEffect(c, [s EXCEPT !.effectPending = FALSE, !.timer = None])
    ELSE s

\* The passive effects of render r, whose predecessor was render prev, queuing
\* their updates onto s: the topic effect when topicKey changed, then the timer
\* effect (cleanup, then body) when timeLeft or testState changed.
Effects(prev, r, s) ==
    LET a == IF r.topicKey # prev.topicKey THEN topicEffect(r, s) ELSE s
    IN IF DepsChanged(prev, r)
       THEN timerEffect(r, [a EXCEPT !.timer = None])
       ELSE a

\* A discrete event: the handler's updates h are rendered together with those
\* of the pending effect; the effects of each render then run, and their
\* updates are rendered, until nothing changes.
Discrete(c, h) ==
    LET s1 == FlushPending(c, h)
        e1 == Effects(c, s1, s1)
        e2 == Effects(s1, e1, e1)
        e3 == Effects(e1, e2, e2)
    IN e3

\* A timer callback or promise continuation: the updates are rendered the same
\* way and the topic effect of a route change runs, but the timer effect of
\* the new render is left pending when it has something to do.
Deferred(c, h) ==
    LET s1 == FlushPending(c, h)
        e1 == IF s1.topicKey # c.topicKey THEN topicEffect(s1, s1) ELSE s1
    IN [e1 EXCEPT !.effectPending =
            /\ DepsChanged(c, e1)
            /\ (e1.testState = "in-progress" \/ e1.timer # None)]

\* what the render of the committed state shows
ShowsTopicSelection == selectedTopic(topicKey) = None
ShowsCompleted == ~ShowsTopicSelection /\ testState = "completed"
ShowsInProgress ==
    ~ShowsTopicSelection /\ testState = "in-progress" /\ Len(questions) > 0

\* completed view: answers.filter((ans, i) => ans === questions[i].correctAnswer).length
\* (None when questions[i] is undefined for some i: the render throws)
RenderScore(ans, qs) ==
    IF Len(ans) > Len(qs) THEN None
    ELSE Some(Cardinality({i \in 1..Len(ans) : ans[i] = Some(qs[i].correctAnswer)}))

\* ----------------------------------------------------------------- Init
\* The component as constructed (useState initial values), before its effects.
Constructed(k, u) ==
    [topicKey |-> k, user |-> u,
     profile |-> IF u = None THEN None ELSE Some([score |-> 0]),
     testState |-> "not-started", questions |-> <<>>,
     currentQuestionIndex |-> 0, answers |-> <<>>, showExplanation |-> FALSE,
     timeLeft |-> StartTime, saveError |-> None, timer |-> None,
     effectPending |-> FALSE, fetches |-> <<>>, fetchCount |-> 0,
     sessionNo |-> 0, completions |-> <<>>]

\* the topic routes the user visits
NavKeys == {Some(topics[1].key), Some(topics[2].key)}

\* The state after mounting on route k with user u: the topic effect of the
\* first render has run.
Mounted(k, u) ==
    LET s0 == Constructed(k, u)
        m == topicEffect(s0, s0)
    IN /\ topicKey = m.topicKey
       /\ user = m.user
       /\ profile = m.profile
       /\ testState = m.testState
       /\ questions = m.questions
       /\ currentQuestionIndex = m.currentQuestionIndex
       /\ answers = m.answers
       /\ showExplanation = m.showExplanation
       /\ timeLeft = m.timeLeft
       /\ saveError = m.saveError
       /\ timer = m.timer
       /\ effectPending = m.effectPending
       /\ fetches = m.fetches
       /\ fetchCount = m.fetchCount
       /\ sessionNo = m.sessionNo
       /\ completions = m.completions

\* no second device and no backend table: the runs of one Practice component
BackendIdle ==
    /\ devices = <<>>
    /\ profiles = <<>>
    /\ served = {}

\* the components with a realtime subscription
Components == {"Leaderboard", "Community"}

\* the Practice page on screen: no Leaderboard, no Community, no channel
RealtimeIdle ==
    /\ page = "practice"
    /\ channels = {}
    /\ held = [c \in Components |-> None]
    /\ pendingEffects = None
    /\ subscribed = 0

\* no Dashboard, no AuthProvider run, no Leaderboard data
DashboardIdle == dashboard = None
AuthIdle == auth = None
BoardIdle == board = None
PagesIdle == DashboardIdle /\ AuthIdle /\ BoardIdle

\* on /practice or on /practice/:topic, with or without a user
Init ==
    \E k \in {None} \cup NavKeys, u \in {None} \cup {Some(x) : x \in Users} :
        Mounted(k, u) /\ BackendIdle /\ RealtimeIdle /\ PagesIdle

\* the same routes when useAuth() has no user: handleCompletion reports nothing
InitNoUser ==
    \E k \in {None} \cup NavKeys : Mounted(k, None) /\ BackendIdle /\ RealtimeIdle /\ PagesIdle

\* -------------------------------------------------------------- actions
\* at most MaxInFlight backend calls are unanswered
BackendQuiet ==
    Cardinality({i \in 1..Len(completions) :
        completions[i].insert = "pending" \/ completions[i].rpc = "pending"})
      <= MaxInFlight

\* a topic card of TopicSelection: navigate(`/practice/${topic.key}`), while
\* fewer than n supply calls have been issued
SelectTopicWithin(n) ==
    /\ ShowsTopicSelection
    /\ fetchCount < n
    /\ BackendQuiet
    /\ \E k \in NavKeys : Apply(Discrete(St, [St EXCEPT !.topicKey = k]))

SelectTopic == SelectTopicWithin(MaxFetches)

\* the same card in a run that goes one session further
SelectTopicAgain == SelectTopicWithin(MaxFetches + 1)

\* the sidebar link to /practice while a topic route is shown
SidebarPractice ==
    /\ topicKey # None
    /\ Apply(Discrete(St, [St EXCEPT !.topicKey = None]))

\* 'Back to Topics' of the in-progress view
BackToTopics ==
    /\ ShowsInProgress
    /\ Apply(Discrete(St, resetTest(St)))

\* 'Take Another Test' of the completed view
TakeAnotherTest ==
    /\ ShowsCompleted
    /\ Apply(Discrete(St, resetTest(St)))

\* option buttons that stay active in every view
AnswerClickUngated ==
    /\ Len(questions) > 0
    /\ ~showExplanation
    /\ \E o \in Options : Apply(Discrete(St, handleAnswer(St, St, o)))

\* an option button (disabled while the explanation is shown)
AnswerClick ==
    /\ ShowsInProgress
    /\ ~showExplanation
    /\ \E o \in Options : Apply(Discrete(St, handleAnswer(St, St, o)))

\* 'Next Question' / 'Finish Test' of the explanation panel
NextClick ==
    /\ ShowsInProgress
    /\ showExplanation
    /\ Apply(Discrete(St, goToNextQuestion(St, St)))

\* the values of timeLeft at which only the timer runs
Skipped(v) == ActiveTail <= v /\ v < StartTime

\* the session is running and its timeout is about to enter those values
Idling ==
    /\ timer # None
    /\ testState = "in-progress"
    /\ Skipped(timer[1])
    /\ ~(effectPending /\ timeLeft = 0)

\* the armed timeout fires: setTimeLeft(timeLeft - 1) of the arming render
Tick ==
    /\ timer # None
    /\ ~Idling
    /\ Apply(Deferred(St, [St EXCEPT !.timeLeft = timer[1], !.timer = None]))

\* The timeout fires and its effect re-arms it, second after second with no
\* other event in between, until ActiveTail seconds are left.
Idle ==
    /\ Idling
    /\ Apply([St EXCEPT !.timeLeft = ActiveTail,
                        !.timer = Some(ActiveTail - 1),
                        !.effectPending = FALSE])

\* the deferred timer effect runs in a task of its own
FlushEffects ==
    /\ effectPending
    /\ Apply(Deferred(St, St))

\* the log forgets the settled runs of earlier sessions when a session starts
InFlight(r) == r.insert = "pending" \/ r.rpc = "pending"

\* startTest leaving the test loading when the supply is empty
startTestResolvedStuck(s, fetchedQuestions) ==
    IF Len(fetchedQuestions) > 0
    THEN [s EXCEPT !.questions = fetchedQuestions,
                   !.answers = [i \in 1..Len(fetchedQuestions) |-> None],
                   !.currentQuestionIndex = 0,
                   !.showExplanation = FALSE,
                   !.timeLeft = StartTime,
                   !.testState = "in-progress",
                   !.sessionNo = @ + 1,
                   !.completions = SelectSeq(@, InFlight)]
    ELSE s

\* startTest leaving timeLeft where the last session stopped
startTestResolvedKeepTime(s, fetchedQuestions) ==
    IF Len(fetchedQuestions) > 0
    THEN [s EXCEPT !.questions = fetchedQuestions,
                   !.answers = [i \in 1..Len(fetchedQuestions) |-> None],
                   !.currentQuestionIndex = 0,
                   !.showExplanation = FALSE,
                   !.testState = "in-progress",
                   !.sessionNo = @ + 1,
                   !.completions = SelectSeq(@, InFlight)]
    ELSE [s EXCEPT !.testState = "not-started", !.topicKey = None]

\* startTest after its await: the supply resolved to fetchedQuestions
startTestResolved(s, fetchedQuestions) ==
    IF Len(fetchedQuestions) > 0
    THEN [s EXCEPT !.questions = fetchedQuestions,
                   !.answers = [i \in 1..Len(fetchedQuestions) |-> None],
                   !.currentQuestionIndex = 0,
                   !.showExplanation = FALSE,
                   !.timeLeft = StartTime,
                   !.testState = "in-progress",
                   !.sessionNo = @ + 1,
                   !.completions = SelectSeq(@, InFlight)]
    ELSE [s EXCEPT !.testState = "not-started", !.topicKey = None]

RemoveAt(seq, i) == [j \in 1..(Len(seq) - 1) |-> IF j < i THEN seq[j] ELSE seq[j + 1]]

FetchResponse ==
    /\ BackendQuiet
    /\ \E i \in 1..Len(fetches) : \E qs \in SupplyResults(fetches[i]) :
        Apply(Deferred(St,
            startTestResolved([St EXCEPT !.fetches = RemoveAt(@, i)], qs)))

\* handleCompletion without 'if (insertError) throw insertError'
insertResolvedNoThrow(s, i, err) ==
    LET r == s.completions[i]
        pointsEarned == r.score * XPPerCorrect
        st == IF err # None THEN "error" ELSE "ok"
    IN IF pointsEarned > 0
       THEN [s EXCEPT !.completions[i].insert = st,
                      !.completions[i].rpc = "pending",
                      !.completions[i].increment_value = pointsEarned]
       ELSE [s EXCEPT !.completions[i].insert = st]

\* handleCompletion with a catch that does not set saveError
insertResolvedSilent(s, i, err) ==
    LET r == s.completions[i]
        pointsEarned == r.score * XPPerCorrect
    IN IF err # None
       THEN [s EXCEPT !.completions[i].insert = "error"]
       ELSE IF pointsEarned > 0
            THEN [s EXCEPT !.completions[i].insert = "ok",
                           !.completions[i].rpc = "pending",
                           !.completions[i].increment_value = pointsEarned]
            ELSE [s EXCEPT !.completions[i].insert = "ok"]

\* handleCompletion calling increment_user_score whatever pointsEarned is
insertResolvedAlwaysIncrement(s, i, err) ==
    LET r == s.completions[i]
        pointsEarned == r.score * XPPerCorrect
    IN IF err # None
       THEN [s EXCEPT !.completions[i].insert = "error", !.saveError = err]
       ELSE [s EXCEPT !.completions[i].insert = "ok",
                      !.completions[i].rpc = "pending",
                      !.completions[i].increment_value = pointsEarned]

\* handleCompletion after the insert's await
insertResolved(s, i, err) ==
    LET r == s.completions[i]
        pointsEarned == r.score * XPPerCorrect
    IN IF err # None
       THEN [s EXCEPT !.completions[i].insert = "error", !.saveError = err]
       ELSE IF pointsEarned > 0
            THEN [s EXCEPT !.completions[i].insert = "ok",
                           !.completions[i].rpc = "pending",
                           !.completions[i].increment_value = pointsEarned]
            ELSE [s EXCEPT !.completions[i].insert = "ok"]

InsertResponse ==
    \E i \in 1..Len(completions) :
        /\ completions[i].insert = "pending"
        /\ \E err \in {None, Some("insert failed")} :
              Apply(Deferred(St, insertResolved(St, i, err)))

\* handleCompletion after the rpc's await
rpcResolved(s, i, err) ==
    LET r == s.completions[i]
    IN IF err # None
       THEN [s EXCEPT !.completions[i].rpc = "error", !.saveError = err]
       ELSE [s EXCEPT !.completions[i].rpc = "ok",
                      !.profile = IF @ # None
                                  THEN Some([score |-> @[1].score + r.increment_value])
                                  ELSE None]

RpcResponse ==
    \E i \in 1..Len(completions) :
        /\ completions[i].rpc = "pending"
        /\ \E err \in {None, Some("rpc failed")} :
              Apply(Deferred(St, rpcResolved(St, i, err)))

Next ==
    \/ SelectTopic
    \/ SidebarPractice
    \/ BackToTopics
    \/ TakeAnotherTest
    \/ AnswerClick
    \/ NextClick
    \/ Tick
    \/ Idle
    \/ FlushEffects
    \/ FetchResponse
    \/ InsertResponse
    \/ RpcResponse

Spec == Init /\ [][Next]_vars

\* Sessions in a row without a user: no backend call is ever issued, so the
\* two responses have nothing to answer.
NextNoUser ==
    \/ SelectTopicAgain
    \/ SidebarPractice
    \/ BackToTopics
    \/ TakeAnotherTest
    \/ AnswerClick
    \/ NextClick
    \/ Tick
    \/ Idle
    \/ FlushEffects
    \/ FetchResponse

SpecNoUser == InitNoUser /\ [][NextNoUser]_vars

\* ------------------------------------------- two devices and the backend
\* Two devices of one user, each with its own Practice component, and the
\* profiles table of the backend. The devices meet only in the table.
Devices == {"d1", "d2"}

\* the questions both devices were given
DeviceQuestions == [i \in 1..MaxQuestions |-> Question(topics[1].name, "A")]

\* every way of answering all of them
AnswerSheets == [1..MaxQuestions -> {Some(o) : o \in Options}]

\* A Practice component with the last question answered and 'Finish Test' on
\* screen, before the first tick.
AtFinish(u, ans) ==
    [Constructed(Some(topics[1].key), Some(u)) EXCEPT
        !.testState = "in-progress",
        !.questions = DeviceQuestions,
        !.answers = ans,
        !.currentQuestionIndex = Len(DeviceQuestions) - 1,
        !.showExplanation = TRUE,
        !.timer = Some(StartTime - 1),
        !.fetchCount = 1,
        !.sessionNo = 1]

InitDevices ==
    /\ Mounted(None, None)
    /\ devices \in [Devices -> {AtFinish(u, ans) : u \in Users, ans \in AnswerSheets}]
    /\ profiles = [u \in Users |-> 0]
    /\ served = {}
    /\ RealtimeIdle
    /\ PagesIdle

\* increment_user_score writing the value in place of adding it
increment_user_score_overwrite(tbl, uid, increment_value) ==
    [tbl EXCEPT ![uid] = increment_value]

\* UPDATE public.profiles SET score = score + increment_value WHERE id = auth.uid()
increment_user_score(tbl, uid, increment_value) ==
    [tbl EXCEPT ![uid] = @ + increment_value]

\* 'Finish Test' on device d
DeviceFinish(d) ==
    /\ devices[d].testState = "in-progress"
    /\ devices' = [devices EXCEPT ![d] = Discrete(@, goToNextQuestion(@, @))]
    /\ UNCHANGED <<profiles, served, practiceVars, realtimeVars, pagesVars>>

\* the insert of device d is answered
DeviceInsertResponse(d) ==
    /\ \E i \in 1..Len(devices[d].completions) :
        /\ devices[d].completions[i].insert = "pending"
        /\ \E err \in {None, Some("insert failed")} :
              devices' = [devices EXCEPT ![d] = Deferred(@, insertResolved(@, i, err))]
    /\ UNCHANGED <<profiles, served, practiceVars, realtimeVars, pagesVars>>

\* the backend executes the increment_user_score call of device d
ServeIncrement(d) ==
    /\ \E i \in 1..Len(devices[d].completions) :
        /\ devices[d].completions[i].rpc = "pending"
        /\ <<d, i>> \notin served
        /\ profiles' = increment_user_score(profiles, devices[d].user[1],
                            devices[d].completions[i].increment_value)
        /\ served' = served \cup {<<d, i>>}
    /\ UNCHANGED <<devices, practiceVars, realtimeVars, pagesVars>>

\* the rpc of device d is answered: with success once the backend has executed
\* it, with an error at any time
DeviceRpcResponse(d) ==
    /\ \E i \in 1..Len(devices[d].completions) :
        /\ devices[d].completions[i].rpc = "pending"
        /\ \E err \in {None, Some("rpc failed")} :
              /\ err = None => <<d, i>> \in served
              /\ devices' = [devices EXCEPT ![d] = Deferred(@, rpcResolved(@, i, err))]
    /\ UNCHANGED <<profiles, served, practiceVars, realtimeVars, pagesVars>>

NextDevices ==
    \/ \E d \in Devices : DeviceFinish(d)
    \/ \E d \in Devices : DeviceInsertResponse(d)
    \/ \E d \in Devices : ServeIncrement(d)
    \/ \E d \in Devices : DeviceRpcResponse(d)

SpecDevices == InitDevices /\ [][NextDevices]_vars

\* ------------------------------------- Leaderboard, Community, realtime
\* The pages of the sidebar are mounted and unmounted by route changes; the
\* effect of Leaderboard (deps [profile]) and of Community (deps []) opens a
\* channel and its cleanup removes it. The realtime service is opaque:
\* subscribe() makes a channel live, removeChannel(channel) ends it.
Pages == {"dashboard", "leaderboard", "community"}

ComponentOf(p) ==
    IF p = "leaderboard" THEN Some("Leaderboard")
    ELSE IF p = "community" THEN Some("Community")
    ELSE None

\* supabase.channel(<name>)
Topic(comp) ==
    IF comp = "Leaderboard" THEN "public:profiles:leaderboard" ELSE "public:posts"

Rt == [channels |-> channels, held |-> held, subscribed |-> subscribed,
       pendingEffects |-> pendingEffects]

\* the effect body: const channel = supabase.channel(...).on(...).subscribe()
subscribeEffect(r, comp) ==
    LET id == r.subscribed + 1
    IN [r EXCEPT !.channels = @ \cup {[topic |-> Topic(comp), id |-> id]},
                 !.held[comp] = Some(id),
                 !.subscribed = id]

\* a cleanup that forgets the channel without removing it
effectCleanupKeepsChannel(r, comp) ==
    [r EXCEPT !.held[comp] = None]

\* the effect's cleanup: supabase.removeChannel(channel), on the channel of
\* the effect run it belongs to
effectCleanup(r, comp) ==
    IF r.held[comp] = None THEN r
    ELSE [r EXCEPT !.channels = {ch \in @ : ch.id # r.held[comp][1]},
                   !.held[comp] = None]

\* the passive effects left by the last render: the cleanup of an unmounted
\* component, or the cleanup and the new run of an effect whose deps changed
runPending(r) ==
    IF r.pendingEffects = None THEN r
    ELSE LET pe == r.pendingEffects[1]
             cleaned == effectCleanup([r EXCEPT !.pendingEffects = None], pe.comp)
         IN IF pe.kind = "rerun" THEN subscribeEffect(cleaned, pe.comp) ELSE cleaned

\* subscribe() calls the pending effects will make
Owed == IF pendingEffects # None /\ pendingEffects[1].kind = "rerun" THEN 1 ELSE 0

ApplyRt(r) ==
    /\ channels' = r.channels
    /\ held' = r.held
    /\ subscribed' = r.subscribed
    /\ pendingEffects' = r.pendingEffects

\* The signed-in application on the dashboard; the Practice component keeps
\* its constructed state throughout.
InitRealtime ==
    /\ \E u \in Users : Mounted(None, Some(u))
    /\ BackendIdle
    /\ page = "dashboard"
    /\ channels = {}
    /\ held = [c \in Components |-> None]
    /\ pendingEffects = None
    /\ subscribed = 0
    /\ PagesIdle

\* a sidebar link (a click): the page on screen is unmounted and page p is
\* mounted; the cleanups and effects of the render run with it
RtNavigate(p) ==
    /\ page \in Pages
    /\ p # page
    /\ subscribed + Owed + (IF ComponentOf(p) # None THEN 1 ELSE 0) <= MaxSubscriptions
    /\ LET r1 == runPending(Rt)
           r2 == IF ComponentOf(page) # None
                 THEN effectCleanup(r1, ComponentOf(page)[1]) ELSE r1
           r3 == IF ComponentOf(p) # None
                 THEN subscribeEffect(r2, ComponentOf(p)[1]) ELSE r2
       IN ApplyRt(r3)
    /\ page' = p
    /\ UNCHANGED <<practiceVars, backendVars, pagesVars>>

\* setProfile from a promise continuation (the profile fetched after a sign
\* in, or the rpc of a finished test): the Leaderboard effect has a new dep
\* and is left to run after the render
RtProfileSet ==
    /\ page \in Pages
    /\ profile # None => profile[1].score < MaxQuestions * XPPerCorrect
    /\ page = "leaderboard" => subscribed + Owed + 1 <= MaxSubscriptions
    /\ profile' = IF profile = None
                  THEN Some([score |-> 0])
                  ELSE Some([score |-> profile[1].score + XPPerCorrect])
    /\ LET r1 == runPending(Rt)
       IN ApplyRt(IF page = "leaderboard"
                  THEN [r1 EXCEPT !.pendingEffects =
                            Some([comp |-> "Leaderboard", kind |-> "rerun"])]
                  ELSE r1)
    /\ UNCHANGED <<page, user, sessionVars, backendVars, pagesVars>>

\* SIGNED_OUT: session, user and profile are cleared and ProtectedRoute
\* replaces the layout by /auth; the cleanup of the page that was on screen
\* is left to run after the render
RtLogout ==
    /\ page \in Pages
    /\ user' = None
    /\ profile' = None
    /\ page' = "auth"
    /\ LET r1 == runPending(Rt)
       IN ApplyRt(IF ComponentOf(page) # None
                  THEN [r1 EXCEPT !.pendingEffects =
                            Some([comp |-> ComponentOf(page)[1], kind |-> "unmount"])]
                  ELSE r1)
    /\ UNCHANGED <<sessionVars, backendVars, pagesVars>>

\* SIGNED_IN on /auth: session and user are set and AuthPage navigates to
\* /dashboard; the profile arrives later
RtLogin ==
    /\ page = "auth"
    /\ \E u \in Users : user' = Some(u)
    /\ page' = "dashboard"
    /\ ApplyRt(runPending(Rt))
    /\ UNCHANGED <<profile, sessionVars, backendVars, pagesVars>>

\* the passive effects of the last render run in a task of their own
RtFlush ==
    /\ pendingEffects # None
    /\ ApplyRt(runPending(Rt))
    /\ UNCHANGED <<page, practiceVars, backendVars, pagesVars>>

NextRealtime ==
    \/ \E p \in Pages : RtNavigate(p)
    \/ RtProfileSet
    \/ RtLogout
    \/ RtLogin
    \/ RtFlush

\* React always gets to run the passive effects it has scheduled
SpecRealtime == InitRealtime /\ [][NextRealtime]_vars /\ WF_vars(RtFlush)

\* ---------------------------------------------------------------- Dashboard
\* components/Dashboard.tsx: the effect's fetchData and the two functions it
\* applies to the fetched results.  An instant is a calendar day and the half
\* of the day it falls in; a JavaScript object is the sequence of its
\* properties in insertion order; a string the code takes apart is the
\* sequence of its characters.

days == <<"Sun", "Mon", "Tue", "Wed", "Thu", "Fri", "Sat">>

\* Date.prototype.getDay, 0 for Sunday
getDay(t) == t.day % Len(days)

\* a >= b on instants
AtOrAfter(a, b) == a.day > b.day \/ (a.day = b.day /\ (a.pm \/ ~b.pm))

\* d.setDate(d.getDate() - n)
DaysBefore(t, n) == [day |-> t.day - n, pm |-> t.pm]

\* Array.prototype.indexOf, 0-based, -1 when absent
IndexOf(seq, x) ==
    IF \E i \in 1..Len(seq) : seq[i] = x
    THEN (CHOOSE i \in 1..Len(seq) : seq[i] = x /\ \A j \in 1..(i - 1) : seq[j] # x) - 1
    ELSE -1

\* Array.prototype.reverse
Reverse(seq) == [i \in 1..Len(seq) |-> seq[Len(seq) + 1 - i]]

\* obj[k] = v on an object kept as its properties in insertion order
SetProperty(obj, k, v) ==
    IF \E i \in 1..Len(obj) : obj[i].name = k
    THEN [i \in 1..Len(obj) |-> IF obj[i].name = k THEN [obj[i] EXCEPT !.value = v] ELSE obj[i]]
    ELSE Append(obj, [name |-> k, value |-> v])

HasProperty(obj, k) == \E i \in 1..Len(obj) : obj[i].name = k

GetProperty(obj, k) == obj[CHOOSE i \in 1..Len(obj) : obj[i].name = k].value

\* the loop of lines 53-57: the seven days ending today, zeroed
RECURSIVE ZeroedDays(_, _, _)
ZeroedDays(obj, i, now) ==
    IF i = WeekLength THEN obj
    ELSE ZeroedDays(SetProperty(obj, days[getDay(DaysBefore(now, i)) + 1], 0), i + 1, now)

\* the forEach of lines 59-62, from result k on
RECURSIVE AddScores(_, _, _)
AddScores(obj, results, k) ==
    IF k > Len(results) THEN obj
    ELSE LET dayName == days[getDay(results[k].created_at) + 1]
         IN AddScores(SetProperty(obj, dayName,
                                  GetProperty(obj, dayName) + results[k].score * XPPerCorrect),
                      results, k + 1)

\* Array.prototype.sort with comparator rank(a) - rank(b): stable, by insertion
RECURSIVE SortByRank(_, _)
SortByRank(seq, ranks) ==
    IF seq = <<>> THEN <<>>
    ELSE LET e == seq[Len(seq)]
             front == SortByRank(SubSeq(seq, 1, Len(seq) - 1), ranks)
             at == Cardinality({i \in 1..Len(front) :
                                   IndexOf(ranks, front[i].name) <= IndexOf(ranks, e.name)})
         IN SubSeq(front, 1, at) \o <<e>> \o SubSeq(front, at + 1, Len(front))

\* processWeeklyData without the reverse and the sort
processWeeklyDataUnordered(results, now) ==
    LET dailyScores == AddScores(ZeroedDays(<<>>, 0, now), results, 1)
    IN [i \in 1..Len(dailyScores) |->
            [name |-> dailyScores[i].name, score |-> dailyScores[i].value]]

\* processWeeklyData: the value it passes to setWeeklyData
processWeeklyData(results, now) ==
    LET dailyScores == AddScores(ZeroedDays(<<>>, 0, now), results, 1)
        chartData == Reverse([i \in 1..Len(dailyScores) |->
                        [name |-> dailyScores[i].name, score |-> dailyScores[i].value]])
        todayIndex == getDay(now)
        orderedDays == SubSeq(days, todayIndex + 2, Len(days))
                           \o SubSeq(days, 1, todayIndex + 1)
    IN SortByRank(chartData, orderedDays)

\* the characters of the strings the code takes apart or compares by content
Spelling ==
    ("Quantitative Aptitude" :>
        <<"Q","u","a","n","t","i","t","a","t","i","v","e"," ","A","p","t","i","t","u","d","e">>)
    @@ ("Logical Reasoning" :>
        <<"L","o","g","i","c","a","l"," ","R","e","a","s","o","n","i","n","g">>)
    @@ ("Verbal Ability" :>
        <<"V","e","r","b","a","l"," ","A","b","i","l","i","t","y">>)
    @@ ("General Knowledge" :>
        <<"G","e","n","e","r","a","l"," ","K","n","o","w","l","e","d","g","e">>)
    @@ ("Data Interpretation" :>
        <<"D","a","t","a"," ","I","n","t","e","r","p","r","e","t","a","t","i","o","n">>)
    @@ ("quantitative-aptitude" :>
        <<"q","u","a","n","t","i","t","a","t","i","v","e","-","a","p","t","i","t","u","d","e">>)
    @@ ("logical-reasoning" :>
        <<"l","o","g","i","c","a","l","-","r","e","a","s","o","n","i","n","g">>)
    @@ ("verbal-ability" :>
        <<"v","e","r","b","a","l","-","a","b","i","l","i","t","y">>)
    @@ ("general-knowledge" :>
        <<"g","e","n","e","r","a","l","-","k","n","o","w","l","e","d","g","e">>)
    @@ ("data-interpretation" :>
        <<"d","a","t","a","-","i","n","t","e","r","p","r","e","t","a","t","i","o","n">>)
    @@ ("" :> <<>>)

UpperCase == <<"A","B","C","D","E","F","G","H","I","J","K","L","M",
               "N","O","P","Q","R","S","T","U","V","W","X","Y","Z">>
LowerCase == <<"a","b","c","d","e","f","g","h","i","j","k","l","m",
               "n","o","p","q","r","s","t","u","v","w","x","y","z">>
WhiteSpace == {" ", "\t", "\n"}

\* String.prototype.toLowerCase on a sequence of characters
toLowerCase(chars) ==
    [i \in 1..Len(chars) |->
        IF IndexOf(UpperCase, chars[i]) >= 0
        THEN LowerCase[IndexOf(UpperCase, chars[i]) + 1]
        ELSE chars[i]]

\* String.prototype.replace(/\s+/g, '-'): each run of white space becomes one '-'
RECURSIVE replaceWhiteSpace(_)
replaceWhiteSpace(chars) ==
    IF chars = <<>> THEN <<>>
    ELSE IF Head(chars) \in WhiteSpace
         THEN IF Len(chars) > 1 /\ chars[2] \in WhiteSpace
              THEN replaceWhiteSpace(Tail(chars))
              ELSE <<"-">> \o replaceWhiteSpace(Tail(chars))
         ELSE <<Head(chars)>> \o replaceWhiteSpace(Tail(chars))

\* the key of line 104 without the replace of white space
suggestionKeyLowerOnly(name) == toLowerCase(Spelling[name])

\* worstTopic.toLowerCase().replace(/\s+/g, '-')
suggestionKey(name) == replaceWhiteSpace(toLowerCase(Spelling[name]))

\* the key derived from each name of the practice table
DerivedKeys == [i \in 1..Len(topics) |-> suggestionKey(topics[i].name)]

\* the forEach of lines 84-90, from result k on
RECURSIVE Performance(_, _, _)
Performance(obj, results, k) ==
    IF k > Len(results) THEN obj
    ELSE LET r == results[k]
             seen == IF HasProperty(obj, r.topic) THEN obj
                     ELSE SetProperty(obj, r.topic, [correct |-> 0, total |-> 0])
             old == GetProperty(seen, r.topic)
         IN Performance(SetProperty(seen, r.topic,
                                    [correct |-> old.correct + r.score,
                                     total |-> old.total + r.total_questions]),
                        results, k + 1)

\* the comparison of line 97 with <= for <
AccuracyAtMost(a, lowest) ==
    /\ a.total # 0
    /\ a.correct * XPPerCorrect * lowest.den <= lowest.num * a.total

\* (a.correct / a.total) * 100 < lowest, lowest a number or the accuracy of
\* an earlier topic: compared as fractions, and never true for 0 / 0 (NaN)
AccuracyBelow(a, lowest) ==
    /\ a.total # 0
    /\ a.correct * XPPerCorrect * lowest.den < lowest.num * a.total

\* the for-in of lines 95-101, from property k on: worstTopic at its end
RECURSIVE Worst(_, _, _, _)
Worst(obj, k, worstTopic, lowestAccuracy) ==
    IF k > Len(obj) THEN worstTopic
    ELSE IF AccuracyBelow(obj[k].value, lowestAccuracy)
         THEN Worst(obj, k + 1, Some(obj[k].name),
                    [num |-> obj[k].value.correct * XPPerCorrect, den |-> obj[k].value.total])
         ELSE Worst(obj, k + 1, worstTopic, lowestAccuracy)

\* processSuggestions: the state suggestedTopic after it, suggested before it
processSuggestions(results, suggested) ==
    IF Len(results) = 0
    THEN Some([name |-> "Let's get started!", key |-> Spelling[""]])
    ELSE LET topicPerformance == Performance(<<>>, results, 1)
             worstTopic == Worst(topicPerformance, 1, None,
                                 [num |-> LowestAccuracyStart, den |-> 1])
         IN IF worstTopic # None /\ worstTopic[1] # ""
            THEN Some([name |-> worstTopic[1], key |-> suggestionKey(worstTopic[1])])
            ELSE suggested

\* the rows the query of lines 33-37 returns at instant now
Fetched(rows, uid, now) ==
    SelectSeq(rows, LAMBDA r : r.user_id = uid
                               /\ AtOrAfter(r.created_at, DaysBefore(now, WindowDays)))

\* the instants at which the dashboard is opened: each weekday, each half
Nows ==
    {[day |-> d, pm |-> p] : d \in WindowDays..(WindowDays + WeekLength - 1), p \in BOOLEAN}

\* the instants of the eight days up to now
CreationTimes(now) ==
    {t \in {[day |-> now.day - a, pm |-> p] : a \in 0..WindowDays, p \in BOOLEAN} :
        AtOrAfter(now, t)}

\* rows of test_results as handleCompletion inserts them (Practice.tsx 70-80)
ResultRows(uid, times, topicNames, totals, scores) ==
    {[user_id |-> uid, created_at |-> t, score |-> s, total_questions |-> n, topic |-> tn] :
        t \in times, tn \in topicNames, n \in totals, s \in scores}

\* tables of at most max rows, in the order they were inserted
Tables(rows, max) ==
    {tbl \in UNION {[1..n -> rows] : n \in 0..max} :
        /\ \A i \in 1..Len(tbl) : tbl[i].score <= tbl[i].total_questions
        /\ \A i \in 1..(Len(tbl) - 1) : AtOrAfter(tbl[i + 1].created_at, tbl[i].created_at)}

\* the Dashboard after construction (lines 17-20), opened at now over table tbl
DashboardMounted(now, tbl) ==
    dashboard = [now |-> now, test_results |-> tbl, weeklyData |-> <<>>,
                 suggestedTopic |-> None, loading |-> TRUE, fetchError |-> None]

\* weekly runs: the rows differ in creation instant and score (no answer or
\* every answer right)
InitWeekly ==
    /\ \E u \in Users : Mounted(None, Some(u))
    /\ BackendIdle /\ RealtimeIdle /\ AuthIdle /\ BoardIdle
    /\ \E now \in Nows :
          \E tbl \in Tables(ResultRows(user[1], CreationTimes(now),
                                       {topics[1].name}, {MaxQuestions},
                                       {0, MaxQuestions}), MaxResults) :
              DashboardMounted(now, tbl)

\* suggestion runs: the rows differ in topic, score and number of questions;
\* up to MaxResults rows over the five topics, one row more over two of them
InitSuggestions ==
    /\ \E u \in Users : Mounted(None, Some(u))
    /\ BackendIdle /\ RealtimeIdle /\ AuthIdle /\ BoardIdle
    /\ \E now \in {[day |-> WindowDays, pm |-> FALSE]} :
          \E tbl \in Tables(ResultRows(user[1], {now},
                                       {topics[i].name : i \in 1..Len(topics)},
                                       1..MaxQuestions, 0..MaxQuestions), MaxResults)
                      \cup Tables(ResultRows(user[1], {now},
                                       {topics[1].name, topics[2].name},
                                       1..MaxQuestions, 0..MaxQuestions), MaxResults + 1) :
              DashboardMounted(now, tbl)

\* fetchData (lines 23-47) when the query answers with rows
fetchDataResolved ==
    /\ dashboard # None
    /\ user # None
    /\ dashboard.loading
    /\ LET results == Fetched(dashboard.test_results, user[1], dashboard.now)
       IN dashboard' = [dashboard EXCEPT
              !.weeklyData = processWeeklyData(results, dashboard.now),
              !.suggestedTopic = processSuggestions(results, @),
              !.fetchError = None,
              !.loading = FALSE]
    /\ UNCHANGED <<practiceVars, backendVars, realtimeVars, auth, board>>

\* fetchData (lines 23-47) when the query answers with an error
fetchDataFailed ==
    /\ dashboard # None
    /\ user # None
    /\ dashboard.loading
    /\ dashboard' = [dashboard EXCEPT !.fetchError = Some("error"), !.loading = FALSE]
    /\ UNCHANGED <<practiceVars, backendVars, realtimeVars, auth, board>>

NextDashboard == fetchDataResolved \/ fetchDataFailed

SpecWeekly == InitWeekly /\ [][NextDashboard]_vars

SpecSuggestions == InitSuggestions /\ [][NextDashboard]_vars

\* ------------------------------------------------------------ AuthProvider
\* contexts/AppContexts.tsx: the AuthProvider's state, the supabase client's
\* session, the profiles rows, and the runs of handleAuthChange waiting for
\* the answer of their profile select or insert.  A session is the id of its
\* user; isPasswordRecovery is left out (no handler reads it).

Accounts == {"u1", "u2"}
Sessions == {None} \cup {Some(u) : u \in Accounts}

\* the row the select returns and the insert creates
ProfileRow(uid) == [id |-> uid, score |-> 0]

\* the AuthProvider after construction (lines 21-24), its effect run: the
\* getSession() promise is pending and the listener subscribed
AuthConstructed(clientSession, rows) ==
    [session |-> None, user |-> None, profile |-> None, loading |-> TRUE,
     clientSession |-> clientSession, rows |-> rows,
     initialPending |-> TRUE, handlers |-> {}, started |-> 0]

\* handleAuthChange up to its first await (lines 28-37, 63-66)
handleAuthChange(a, s) ==
    LET set == [a EXCEPT !.session = s, !.user = s, !.started = @ + 1]
    IN IF s # None
       THEN [set EXCEPT !.handlers = @ \cup {[id |-> a.started + 1, uid |-> s[1], pc |-> "select"]}]
       ELSE [set EXCEPT !.profile = None, !.loading = FALSE]

\* ProtectedRoute always rendering by the session alone
ProtectedRouteNoSpinner(session, loading) ==
    IF session = None THEN "redirect" ELSE "children"

\* ProtectedRoute (part_000 lines 53-69): what it renders
ProtectedRoute(session, loading) ==
    IF loading THEN "spinner"
    ELSE IF session = None THEN "redirect"
    ELSE "children"

InitAuth ==
    /\ Mounted(None, None)
    /\ BackendIdle /\ RealtimeIdle /\ DashboardIdle /\ BoardIdle
    /\ \E s \in Sessions, rows \in SUBSET Accounts :
          auth = AuthConstructed(s, rows)

AuthFrame == UNCHANGED <<practiceVars, backendVars, realtimeVars, dashboard, board>>

\* supabase.auth.getSession().then(...) (lines 70-72)
getSessionResolved ==
    /\ auth # None
    /\ auth.initialPending
    /\ auth' = [handleAuthChange(auth, auth.clientSession) EXCEPT !.initialPending = FALSE]
    /\ AuthFrame

\* the listener of onAuthStateChange (lines 74-76): the client's session
\* becomes s (sign-in, sign-out, or the same session again on a token refresh)
onAuthStateChange(s) ==
    /\ auth # None
    /\ auth.started < MaxAuthRuns
    /\ auth' = handleAuthChange([auth EXCEPT !.clientSession = s], s)
    /\ AuthFrame

\* the profile select answers (lines 39-45, 58-62, 66)
selectResolved(h) ==
    /\ auth # None
    /\ h \in auth.handlers
    /\ h.pc = "select"
    /\ \/ /\ h.uid \in auth.rows
          /\ auth' = [auth EXCEPT !.profile = Some(ProfileRow(h.uid)),
                                  !.loading = FALSE,
                                  !.handlers = @ \ {h}]
       \/ /\ h.uid \notin auth.rows
          /\ auth' = [auth EXCEPT !.handlers = (@ \ {h}) \cup {[h EXCEPT !.pc = "insert"]}]
       \/ auth' = [auth EXCEPT !.loading = FALSE, !.handlers = @ \ {h}]
    /\ AuthFrame

\* the profile insert answers (lines 47-57, 66)
profileInsertResolved(h) ==
    /\ auth # None
    /\ h \in auth.handlers
    /\ h.pc = "insert"
    /\ \/ /\ h.uid \notin auth.rows
          /\ auth' = [auth EXCEPT !.rows = @ \cup {h.uid},
                                  !.profile = Some(ProfileRow(h.uid)),
                                  !.loading = FALSE,
                                  !.handlers = @ \ {h}]
       \/ auth' = [auth EXCEPT !.loading = FALSE, !.handlers = @ \ {h}]
    /\ AuthFrame

NextAuth ==
    \/ getSessionResolved
    \/ \E s \in Sessions : onAuthStateChange(s)
    \/ \E h \in auth.handlers : selectResolved(h)
    \/ \E h \in auth.handlers : profileInsertResolved(h)

SpecAuth == InitAuth /\ [][NextAuth]_vars

\* ------------------------------------------------------- Leaderboard data
\* part_003 lines 126-259: fetchLeaderboardData and the rows the Leaderboard
\* renders.  The profiles table holds one more row than the query's limit; the
\* order of rows of equal score in the query's answer is the database's
\* choice.

Players == 1..(TopN + 1)

\* the rows other than the current user's are listed by falling score
BoardTables(me) ==
    {rows \in [Players -> 0..MaxBoardScore] :
        \A p, q \in Players \ {me} : p < q => rows[p] >= rows[q]}

\* the Leaderboard after construction (lines 128-131), its effect started:
\* the first query is in flight
BoardConstructed(me, rows) ==
    [me |-> me, rows |-> rows, profile |-> Some([id |-> me, score |-> rows[me]]),
     leaderboard |-> <<>>, userRank |-> None, loading |-> TRUE, fetchError |-> None,
     pc |-> "top"]

\* an answer to order('score', descending).limit(TopN) that leaves out row out
\* (a row of least score): the other rows by falling score
TopRows(rows, out) ==
    LET kept == Players \ {out}
        place(p) == 1 + Cardinality({q \in kept :
                            rows[q] > rows[p] \/ (rows[q] = rows[p] /\ q < p)})
    IN [i \in 1..TopN |->
           LET p == CHOOSE q \in kept : place(q) = i
           IN [id |-> p, score |-> rows[p]]]

\* data.map((p, index) => ({ ...p, rank: index + 1 })) (line 151)
rankedData(data) ==
    [i \in 1..Len(data) |-> [id |-> data[i].id, score |-> data[i].score, rank |-> i]]

InitBoard ==
    /\ Mounted(None, None)
    /\ BackendIdle /\ RealtimeIdle /\ DashboardIdle /\ AuthIdle
    /\ \E me \in Players : \E rows \in BoardTables(me) : board = BoardConstructed(me, rows)

BoardFrame == UNCHANGED <<practiceVars, backendVars, realtimeVars, dashboard, auth>>

\* fetchLeaderboardData after its first await (lines 138-156), the answer
\* leaving out a row of least score
topResolved ==
    /\ board # None
    /\ board.pc = "top"
    /\ \E out \in {p \in Players : \A q \in Players : board.rows[p] <= board.rows[q]} :
          board' = [board EXCEPT !.leaderboard = rankedData(TopRows(board.rows, out)),
                                 !.pc = "rank"]
    /\ BoardFrame

\* fetchLeaderboardData when its first query fails (lines 144-148), and
\* performInitialFetch after it (line 173)
topFailed ==
    /\ board # None
    /\ board.pc = "top"
    /\ board' = [board EXCEPT !.fetchError = Some("error"), !.loading = FALSE, !.pc = "done"]
    /\ BoardFrame

\* fetchLeaderboardData after its second await (lines 157-166), and
\* performInitialFetch after it (line 173)
rankResolved ==
    /\ board # None
    /\ board.pc = "rank"
    /\ LET count == Cardinality({p \in Players : board.rows[p] > board.profile[1].score})
       IN board' = [board EXCEPT !.userRank = Some(count + 1), !.loading = FALSE, !.pc = "done"]
    /\ BoardFrame

\* the second query fails (lines 162-163)
rankFailed ==
    /\ board # None
    /\ board.pc = "rank"
    /\ board' = [board EXCEPT !.loading = FALSE, !.pc = "done"]
    /\ BoardFrame

NextBoard == topResolved \/ topFailed \/ rankResolved \/ rankFailed

SpecBoard == InitBoard /\ [][NextBoard]_vars

\* the render of lines 197-253: the list is on screen, and the 'You' row
ListShown == ~board.loading /\ board.fetchError = None /\ board.leaderboard # <<>>
isUserInTop10 == \E i \in 1..Len(board.leaderboard) : board.leaderboard[i].id = board.me
YouRowShown ==
    /\ ListShown
    /\ ~isUserInTop10
    /\ board.profile # None
    /\ board.userRank # None /\ board.userRank[1] # 0

\* ------------------------------------------------------------ properties
\* the number of right answers, counted over the questions
CorrectCount(ans, qs) ==
    Cardinality({i \in 1..Len(qs) :
                    /\ i <= Len(ans)
                    /\ ans[i] # None
                    /\ ans[i][1] = qs[i].correctAnswer})

Unanswered == \E i \in 1..Len(answers) : answers[i] = None

\* the runs of handleCompletion for session k
RunsOf(k) == {i \in 1..Len(completions) : completions[i].session = k}
Reported(i) == completions[i].insert # "skipped"
Incremented(i) == completions[i].rpc # "none"

\* the runs of handleCompletion a step adds: they follow the runs it keeps
KeptRuns == IF sessionNo' # sessionNo THEN SelectSeq(completions, InFlight) ELSE completions
NewRunCount == Len(completions') - Len(KeptRuns)
NewRun(j) == completions'[Len(KeptRuns) + j]

\* the completed view: the score line, and the XP line shown unless saveError is set
ScoreShown == RenderScore(answers, questions)
XPVisible == ShowsCompleted /\ saveError = None
XPShown == ScoreShown[1] * XPPerCorrect

\* C1: for one session, whatever the order of the expiry effect and 'Finish
\* Test', handleCompletion issues at most one insert and at most one
\* increment, and a second run computes the same correctCount.
C1_CompleteOnce ==
    \A k \in 1..sessionNo :
        /\ Cardinality({i \in RunsOf(k) : Reported(i)}) <= 1
        /\ Cardinality({i \in RunsOf(k) : Incremented(i)}) <= 1
        /\ \A i, j \in RunsOf(k) : completions[i].score = completions[j].score

\* C1, the part that holds: two runs for one session compute the same score
C1_SameScore ==
    \A k \in 1..sessionNo :
        \A i, j \in RunsOf(k) : completions[i].score = completions[j].score

\* C2: every run of handleCompletion records as score the number of indices
\* whose answer equals the question's correctAnswer (null answers never
\* count), and as total the number of questions.
C2_ScoreIsCorrectCount ==
    [][\A j \in 1..NewRunCount :
          /\ NewRun(j).score = CorrectCount(answers, questions)
          /\ NewRun(j).total_questions = Len(questions)]_vars

C2_Witness ==
    /\ Len(questions) = 2
    /\ testState = "completed"
    /\ answers[1] # None /\ answers[1][1] # questions[1].correctAnswer
    /\ answers[2] = Some(questions[2].correctAnswer)
    /\ \E i \in RunsOf(sessionNo) : completions[i].score = 1

\* C3: from the entry into 'in-progress' until resetTest empties the
\* questions, answers and questions have the same length.
ResetCalled == questions = <<>>

C3_AnswersLength ==
    (testState = "in-progress" \/ (testState = "completed" /\ ~ResetCalled))
        => Len(answers) = Len(questions)

C3_Witness ==
    /\ testState = "in-progress"
    /\ Len(questions) = 2
    /\ currentQuestionIndex = 1
    /\ answers[2] # None

\* C4: within one session currentQuestionIndex never decreases, moves only by
\* one and only on 'Next Question', and stays within 0..questions.length.
C4_IndexMonotone ==
    /\ []((testState = "in-progress" \/ (testState = "completed" /\ ~ResetCalled))
            => (0 <= currentQuestionIndex /\ currentQuestionIndex <= Len(questions)))
    /\ [][sessionNo' = sessionNo =>
            \/ currentQuestionIndex' = currentQuestionIndex
            \/ /\ currentQuestionIndex' = currentQuestionIndex + 1
               /\ ShowsInProgress /\ showExplanation]_vars

C4_Witness ==
    /\ testState = "in-progress"
    /\ currentQuestionIndex = 1

\* C5: the increment sent, the amount added to the local profile score and the
\* XP line of the completed view are each 100 times the score of the session's
\* result record.
C5_PointsAreHundredPerCorrect ==
    /\ [](\A i \in 1..Len(completions) :
            Incremented(i) =>
                completions[i].increment_value = completions[i].score * 100)
    /\ [](XPVisible =>
            \A i \in RunsOf(sessionNo) :
                Reported(i) => XPShown = completions[i].score * 100)
    /\ [][profile' # profile =>
            \E i \in 1..Len(completions) :
                /\ completions[i].rpc = "pending"
                /\ profile # None /\ profile' # None
                /\ profile'[1].score = profile[1].score + completions[i].score * 100]_vars

C5_Witness ==
    /\ XPVisible
    /\ profile # None /\ profile[1].score = 200
    /\ \E i \in RunsOf(sessionNo) :
          /\ completions[i].rpc = "ok"
          /\ completions[i].score = 2

\* C6: a session of N questions of a signed-in user, finished by 'Finish Test'
\* before the timer expires, with k >= 1 right answers and both backend calls
\* accepted, has exactly one result record {score k, total N, the selected
\* topic} and exactly one increment, of 100 * k.
Settled(i) ==
    /\ completions[i].insert \in {"ok", "skipped"}
    /\ completions[i].rpc \in {"ok", "none"}

C6_OneRecordOneIncrement ==
    ( /\ ShowsCompleted
      /\ timeLeft > 0
      /\ user # None
      /\ CorrectCount(answers, questions) >= 1
      /\ RunsOf(sessionNo) # {}
      /\ \A i \in RunsOf(sessionNo) :
            Settled(i) /\ (completions[i].score > 0 => completions[i].rpc = "ok") )
    => /\ Cardinality(RunsOf(sessionNo)) = 1
       /\ \A i \in RunsOf(sessionNo) :
            /\ completions[i].insert = "ok"
            /\ completions[i].score = CorrectCount(answers, questions)
            /\ completions[i].total_questions = Len(questions)
            /\ completions[i].topic = selectedTopic(topicKey)[1].name
            /\ completions[i].user_id = user
            /\ completions[i].rpc = "ok"
            /\ completions[i].increment_value = 100 * CorrectCount(answers, questions)

C6_Witness ==
    /\ ShowsCompleted
    /\ timeLeft > 0
    /\ Len(questions) = 2
    /\ CorrectCount(answers, questions) = 1
    /\ \E i \in RunsOf(sessionNo) :
          completions[i].rpc = "ok" /\ completions[i].increment_value = 100

\* C7: when timeLeft is 0 in an in-progress session with unanswered questions,
\* the expiry effect is due, and the next step runs handleCompletion exactly
\* once, on the answers given so far, and leaves the session completed (unless
\* the click of that very step changed the route, which resets or reloads).
C7_ExpiryCompletesOnce ==
    /\ []((testState = "in-progress" /\ timeLeft = 0) => effectPending)
    /\ [][(testState = "in-progress" /\ timeLeft = 0 /\ Unanswered) =>
            /\ NewRunCount = 1
            /\ NewRun(1).session = sessionNo
            /\ NewRun(1).score = CorrectCount(answers, questions)
            /\ \/ testState' = "completed"
               \/ topicKey' # topicKey /\ testState' \in {"not-started", "loading"}]_vars

C7_Witness ==
    /\ testState = "completed"
    /\ timeLeft = 0
    /\ Len(questions) = 2
    /\ answers[1] = Some(questions[1].correctAnswer)
    /\ answers[2] = None
    /\ Cardinality(RunsOf(sessionNo)) = 1
    /\ \A i \in RunsOf(sessionNo) : completions[i].score = 1

\* C8: when the supply resolves to an empty list while the test is loading,
\* the step ends in 'not-started' on /practice with no questions, issues no
\* fetch and runs no handleCompletion.
C8_EmptySupply ==
    [][(testState = "loading" /\ Len(fetches') < Len(fetches) /\ sessionNo' = sessionNo) =>
          /\ testState' = "not-started"
          /\ topicKey' = None
          /\ questions' = <<>>
          /\ fetchCount' = fetchCount
          /\ Len(fetches') = Len(fetches) - 1
          /\ NewRunCount = 0
          /\ completions' = completions]_vars

C8_Witness ==
    /\ testState = "not-started"
    /\ fetchCount = 1
    /\ fetches = <<>>
    /\ sessionNo = 0

\* C9: a failed insert is followed by no increment: its run never issues the
\* rpc, the step that receives the failure leaves the local profile alone and,
\* in the completed session, sets saveError and leaves testState 'completed'.
InsertFails(i) ==
    /\ completions[i].insert = "pending"
    /\ i <= Len(completions')
    /\ completions'[i].insert = "error"

C9_FailedInsertStopsReport ==
    /\ [](\A i \in 1..Len(completions) :
            completions[i].insert = "error" =>
                completions[i].rpc = "none" /\ completions[i].increment_value = 0)
    /\ [][\A i \in 1..Len(completions) :
            InsertFails(i) =>
                /\ profile' = profile
                /\ completions'[i].rpc = "none"
                /\ NewRunCount = 0 => saveError' # None
                /\ testState = "completed" =>
                      testState' = "completed" /\ saveError' # None]_vars

C9_Witness ==
    /\ testState = "completed"
    /\ saveError = Some("insert failed")
    /\ profile = Some([score |-> 0])
    /\ \E i \in RunsOf(sessionNo) :
          /\ completions[i].insert = "error"
          /\ completions[i].score > 0

\* a backend call of the session on screen has failed
SaveFailed ==
    \E i \in RunsOf(sessionNo) :
        completions[i].insert = "error" \/ completions[i].rpc = "error"

EntersInProgress == testState' = "in-progress" /\ sessionNo' # sessionNo

LegalEdges ==
    { <<"not-started", "loading">>, <<"loading", "in-progress">>,
      <<"loading", "not-started">>, <<"in-progress", "completed">>,
      <<"completed", "not-started">> }

\* C12: testState changes only along the legal edges, and startTest is
\* called (a supply call is issued) only when testState is 'not-started'.
C12_LegalTransitions ==
    [][/\ testState' # testState => <<testState, testState'>> \in LegalEdges
       /\ fetchCount' # fetchCount => testState = "not-started"]_vars

\* a click that runs resetTest: 'Back to Topics', 'Take Another Test', or the
\* sidebar link through the topic effect
ResetStep ==
    /\ topicKey # None
    /\ topicKey' = None
    /\ testState' = "not-started"
    /\ fetches' = fetches

\* C13: after resetTest the component holds nothing of the session: no
\* questions, no answers, cursor 0, explanation hidden, the full time, no
\* save error.
C13_ResetClearsAll ==
    [][ResetStep =>
          /\ questions' = <<>>
          /\ answers' = <<>>
          /\ currentQuestionIndex' = 0
          /\ showExplanation' = FALSE
          /\ timeLeft' = StartTime
          /\ saveError' = None]_vars

\* C14: timeLeft stays within 0..300; it rises only to 300, at the entry into
\* a session; it falls only while testState is 'in-progress', by one per tick
\* (the idle stretch of a session is a run of such ticks down to ActiveTail);
\* in 'not-started', 'loading' and 'completed' it does not fall.
C14_TimeLeftTicks ==
    /\ [](0 <= timeLeft /\ timeLeft <= StartTime)
    /\ [][/\ timeLeft' > timeLeft => (EntersInProgress /\ timeLeft' = StartTime)
          /\ timeLeft' < timeLeft =>
                /\ testState = "in-progress"
                /\ \/ timeLeft' = timeLeft - 1
                   \/ Idling /\ timeLeft' = ActiveTail]_vars

\* C15: goToNextQuestion runs only from the explanation panel, and the panel
\* is open only when the question at the cursor has an answer; a step that
\* moves the cursor within a session starts from an answered question, hides
\* the explanation and lands on a question with a null answer.
C15_AdvanceAfterAnswer ==
    /\ []((ShowsInProgress /\ showExplanation) =>
            /\ currentQuestionIndex < Len(answers)
            /\ answers[currentQuestionIndex + 1] # None)
    /\ [][(sessionNo' = sessionNo /\ currentQuestionIndex' # currentQuestionIndex) =>
            /\ showExplanation
            /\ answers[currentQuestionIndex + 1] # None
            /\ showExplanation' = FALSE
            /\ answers'[currentQuestionIndex' + 1] = None]_vars

C15_Witness ==
    /\ ShowsInProgress
    /\ currentQuestionIndex = 1
    /\ ~showExplanation
    /\ answers[1] # None
    /\ answers[2] = None

\* C16: while testState is 'not-started', 'loading' or 'completed', answers
\* changes only when a session is entered: no answer is recorded outside
\* 'in-progress', and the answers of a completed session stay as they were.
C16_NoAnswerOutsideSession ==
    [][(testState # "in-progress" /\ answers' # answers) => EntersInProgress]_vars

\* a session left by 'Back to Topics' with its first answer still in place
C16_Witness ==
    /\ testState = "not-started"
    /\ sessionNo = 1
    /\ Len(answers) = 2
    /\ answers[1] # None
    /\ answers[2] = None

\* C17: without a user, a run of handleCompletion leaves the session
\* completed (unless the click of that very step changed the route) with the
\* score of its answers, issues no insert and no increment; the profile stays
\* absent and no save error is raised.
C17_NoUserNoReport ==
    /\ [](\A i \in 1..Len(completions) :
            completions[i].user_id = None =>
                /\ completions[i].insert = "skipped"
                /\ completions[i].rpc = "none"
                /\ completions[i].increment_value = 0)
    /\ [](user = None => (profile = None /\ saveError = None))
    /\ [][(user = None /\ NewRunCount > 0) =>
            /\ \A j \in 1..NewRunCount :
                  /\ NewRun(j).score = CorrectCount(answers, questions)
                  /\ NewRun(j).insert = "skipped"
            /\ testState' = "completed" \/ topicKey' # topicKey]_vars

C17_Witness ==
    /\ user = None
    /\ ShowsCompleted
    /\ saveError = None
    /\ \E i \in RunsOf(sessionNo) :
          /\ completions[i].score = 1
          /\ completions[i].insert = "skipped"

\* C18: a run calls increment_user_score exactly when its insert succeeded and
\* its score is positive; a run of a signed-in user on a topic route issues
\* its insert whatever the score; the local profile score changes only when
\* the increment of a run with a positive score is accepted.
C18_IncrementIffPositive ==
    /\ [](\A i \in 1..Len(completions) :
            Incremented(i) <=> (completions[i].insert = "ok" /\ completions[i].score > 0))
    /\ [][\A j \in 1..NewRunCount :
            (user # None /\ selectedTopic(topicKey) # None) => NewRun(j).insert = "pending"]_vars
    /\ [][profile' # profile =>
            \E i \in 1..Len(completions) :
                /\ completions[i].rpc = "pending"
                /\ completions'[i].rpc = "ok"
                /\ completions[i].score > 0]_vars

C18_Witness ==
    /\ ShowsCompleted
    /\ user # None
    /\ profile = Some([score |-> 0])
    /\ Cardinality(RunsOf(sessionNo)) = 1
    /\ \A i \in RunsOf(sessionNo) :
          /\ completions[i].score = 0
          /\ completions[i].insert = "ok"
          /\ completions[i].rpc = "none"

\* the points device d has had accepted, and those the backend has executed
PointsAccepted(d) ==
    IF devices[d].completions # <<>> /\ devices[d].completions[1].rpc = "ok"
    THEN devices[d].completions[1].increment_value
    ELSE 0

PointsServed(d) ==
    IF <<d, 1>> \in served THEN devices[d].completions[1].increment_value ELSE 0

BothAccepted == \A d \in Devices : PointsAccepted(d) > 0

\* C19: the backend score of the user is the sum of the increments executed,
\* whatever the order of the two devices' calls and answers; when both calls
\* succeeded it is p1 + p2; and it only ever changes by the increment of one
\* pending call.
C19_NoLostUpdate ==
    /\ [](\A u \in Users : profiles[u] = PointsServed("d1") + PointsServed("d2"))
    /\ [](BothAccepted =>
            \A u \in Users : profiles[u] = PointsAccepted("d1") + PointsAccepted("d2"))
    /\ [][profiles' # profiles =>
            \E d \in Devices : \E u \in Users :
                /\ devices[d].completions # <<>>
                /\ devices[d].completions[1].rpc = "pending"
                /\ profiles'[u] = profiles[u] + devices[d].completions[1].score * XPPerCorrect]_vars

C19_Witness ==
    /\ PointsAccepted("d1") = 100
    /\ PointsAccepted("d2") = 200
    /\ profiles["u1"] = 300

\* the live channels of a component, and its place in the tree
Live(comp) == {ch \in channels : ch.topic = Topic(comp)}
IsMounted(comp) == ComponentOf(page) = Some(comp)
CleanupDue(comp) ==
    /\ pendingEffects # None
    /\ pendingEffects[1].comp = comp
    /\ pendingEffects[1].kind = "unmount"

Processed == dashboard # None /\ ~dashboard.loading /\ dashboard.fetchError = None

\* the results that were handed to processWeeklyData and processSuggestions
Supplied == Fetched(dashboard.test_results, user[1], dashboard.now)

\* the sum of the score fields of a list (bars or results)
RECURSIVE SumScores(_)
SumScores(seq) == IF seq = <<>> THEN 0 ELSE Head(seq).score + SumScores(Tail(seq))

\* the calendar day of bar j: six days ago for the first bar, today for the last
DayOfBar(j) == dashboard.now.day - (WeekLength - j)

\* C21: for every current weekday and every list of fetched results the chart
\* has exactly 7 entries, one per distinct weekday name, in chronological
\* order from six days ago to today (today last), and the bars add up to 100
\* times the sum of the scores of the results.
C21_WeekChart ==
    Processed =>
        LET w == dashboard.weeklyData
        IN /\ Len(w) = WeekLength
           /\ \A i, j \in 1..Len(w) : i # j => w[i].name # w[j].name
           /\ \A j \in 1..Len(w) : w[j].name = days[(DayOfBar(j) % Len(days)) + 1]
           /\ w[Len(w)].name = days[getDay(dashboard.now) + 1]
           /\ SumScores(w) = XPPerCorrect * SumScores(Supplied)

\* opened on a Wednesday over two results of different days with points
C21_Witness ==
    /\ Processed
    /\ getDay(dashboard.now) = 3
    /\ Len(Supplied) = 2
    /\ Supplied[1].created_at.day # Supplied[2].created_at.day
    /\ \A i \in 1..2 : Supplied[i].score > 0
    /\ dashboard.weeklyData[WeekLength].name = "Wed"

\* the topics of the supplied results, the index at which each is first met,
\* and the sums of its score and total_questions over the results
SuppliedTopics == {Supplied[i].topic : i \in 1..Len(Supplied)}
FirstMet(tn) == CHOOSE i \in 1..Len(Supplied) :
                    Supplied[i].topic = tn /\ \A j \in 1..(i - 1) : Supplied[j].topic # tn
RECURSIVE SumOver(_, _, _)
SumOver(seq, tn, field) ==
    IF seq = <<>> THEN 0
    ELSE (IF Head(seq).topic = tn THEN Head(seq)[field] ELSE 0) + SumOver(Tail(seq), tn, field)
Correct(tn) == SumOver(Supplied, tn, "score")
Total(tn) == SumOver(Supplied, tn, "total_questions")

\* C22: for an empty list of results the suggestion is the placeholder with
\* the empty key; for a non-empty list a suggestion is set, and it is the topic
\* of minimal aggregated accuracy (sum of score over sum of total_questions),
\* the first in encounter order among the topics of that accuracy.
C22_WorstTopicSuggested ==
    Processed =>
        LET sug == dashboard.suggestedTopic
        IN /\ Supplied = <<>> =>
                 sug = Some([name |-> "Let's get started!", key |-> <<>>])
           /\ Supplied # <<>> =>
                 /\ sug # None
                 /\ sug[1].name \in SuppliedTopics
                 /\ \A tn \in SuppliedTopics \ {sug[1].name} :
                       \/ Correct(sug[1].name) * Total(tn) < Correct(tn) * Total(sug[1].name)
                       \/ /\ Correct(sug[1].name) * Total(tn) = Correct(tn) * Total(sug[1].name)
                          /\ FirstMet(sug[1].name) < FirstMet(tn)

\* three results: the first topic has 1 of 2 and 0 of 1 (1 of 3 in all), the
\* second topic 1 of 2, and the first topic is suggested
C22_Witness ==
    /\ Processed
    /\ Len(Supplied) = 3
    /\ Cardinality(SuppliedTopics) = 2
    /\ Correct(Supplied[1].topic) = 1 /\ Total(Supplied[1].topic) = 3
    /\ \E tn \in SuppliedTopics \ {Supplied[1].topic} : Correct(tn) = 1 /\ Total(tn) = 2
    /\ dashboard.suggestedTopic[1].name = Supplied[1].topic

\* what the ProtectedRoute of the current render shows
Shown == ProtectedRoute(auth.session, auth.loading)

\* C23: ProtectedRoute renders its children only when loading is false and
\* the session is non-null, the spinner while loading, and the redirect to
\* /auth when loading is over and there is no session; loading starts true
\* and, once false, never becomes true again.
C23_ProtectedRoute ==
    /\ auth.loading
    /\ [](/\ Shown = "children" => (~auth.loading /\ auth.session # None)
          /\ auth.loading => Shown = "spinner"
          /\ (~auth.loading /\ auth.session = None) => Shown = "redirect")
    /\ [][~auth.loading => ~auth'.loading]_vars

\* the children are on screen while a later run of handleAuthChange is still
\* waiting for its profile
C23_Witness ==
    /\ Shown = "children"
    /\ ~auth.loading
    /\ auth.handlers # {}
    /\ auth.profile # None

\* no run of handleAuthChange is waiting and getSession() has answered
AuthSettled == ~auth.initialPending /\ auth.handlers = {}

\* C27: the profile is cleared on logout and stays cleared under every
\* interleaving of auth events with profile selects and inserts in flight:
\* once every handler has finished, user = null implies profile = null, and a
\* non-null profile is the profile of the current user.
C27_ProfileFollowsUser ==
    AuthSettled =>
        /\ auth.user = None => auth.profile = None
        /\ auth.profile # None => (auth.user # None /\ auth.profile[1].id = auth.user[1])

\* the supplied results created on calendar day d
CreatedOn(d) == SelectSeq(Supplied, LAMBDA r : r.created_at.day = d)

\* C28: each weekly bar contains only the XP of results created on the
\* calendar day of the bar; a result created on the same weekday one week
\* earlier, still inside the query's window of seven days, is never added to
\* today's bar.
C28_BarIsThatDay ==
    Processed =>
        \A j \in 1..Len(dashboard.weeklyData) :
            dashboard.weeklyData[j].score = XPPerCorrect * SumScores(CreatedOn(DayOfBar(j)))

\* the keys of the practice table whose characters are the characters chars
KeysSpelled(chars) == {topics[i].key : i \in {j \in 1..Len(topics) : Spelling[topics[j].key] = chars}}

\* C29: for each of the five topic names the key the dashboard derives from
\* the name (lower case, runs of white space replaced by '-') is the key of
\* that topic in the practice table, so the suggestion's link opens the
\* suggested topic.
C29_KeyIsPracticeKey ==
    /\ \A i \in 1..Len(topics) : DerivedKeys[i] = Spelling[topics[i].key]
    /\ (Processed /\ Supplied # <<>>) =>
          \E k \in KeysSpelled(dashboard.suggestedTopic[1].key) :
              /\ selectedTopic(Some(k)) # None
              /\ selectedTopic(Some(k))[1].name = dashboard.suggestedTopic[1].name

\* 'Data Interpretation' is suggested with the key of the practice table
C29_Witness ==
    /\ Processed
    /\ Supplied # <<>>
    /\ dashboard.suggestedTopic[1].name = topics[5].name
    /\ dashboard.suggestedTopic[1].key = Spelling[topics[5].key]
    /\ Len(dashboard.suggestedTopic[1].key) = 19

\* a step in which a supply call is answered although the controller is no
\* longer waiting for it: the test was reset since the call, or a newer call
\* has been issued
LateResponse ==
    /\ Len(fetches') < Len(fetches)
    /\ \/ testState # "loading"
       \/ fetches' # SubSeq(fetches, 1, Len(fetches) - 1)

\* C24: the answer of the supply to an earlier startTest, arriving after the
\* test was reset or a new topic was started, never puts the controller into
\* 'in-progress' and never replaces the questions; and no result record names
\* a topic other than the one its questions were fetched for.
C24_LateResponseDropped ==
    /\ [][LateResponse => (testState' # "in-progress" /\ questions' = questions)]_vars
    /\ [][\A j \in 1..NewRunCount :
            (NewRun(j).insert # "skipped" /\ questions # <<>>) =>
                NewRun(j).topic = questions[1].question]_vars

\* C25: in every in-progress state the answers before the cursor are set,
\* the answers after the cursor are null, and the explanation is open exactly
\* when the answer at the cursor is set.
C25_AnswersFollowCursor ==
    testState = "in-progress" =>
        /\ currentQuestionIndex < Len(answers)
        /\ \A i \in 0..(Len(answers) - 1) :
              /\ i < currentQuestionIndex => answers[i + 1] # None
              /\ i > currentQuestionIndex => answers[i + 1] = None
        /\ showExplanation <=> answers[currentQuestionIndex + 1] # None

\* on the second question, answered, with the explanation open
C25_Witness ==
    /\ testState = "in-progress"
    /\ currentQuestionIndex = 1
    /\ Len(answers) = 2
    /\ answers[1] # None /\ answers[2] # None
    /\ showExplanation

\* C26: the score of the completed screen is the score written to the
\* session's result record, and the completed render never reads questions[i]
\* beyond the end of the question list.
C26_ShownScoreIsRecorded ==
    ShowsCompleted =>
        /\ Len(answers) <= Len(questions)
        /\ \A i \in RunsOf(sessionNo) :
              Reported(i) =>
                  Cardinality({k \in 1..Len(answers) :
                                  k <= Len(questions)
                                  /\ answers[k] = Some(questions[k].correctAnswer)})
                      = completions[i].score

\* C30: entry i of the list (from 0) has rank i + 1 and the scores do not
\* rise down the list; the current user is in exactly one place, the list or
\* the 'You' row; and the rank of the 'You' row (1 + the number of profiles
\* of strictly greater score) is greater than every rank of the list, ties
\* included.
C30_RanksConsistent ==
    (board # None /\ ListShown) =>
        LET l == board.leaderboard
        IN /\ \A i \in 1..Len(l) : l[i].rank = i
           /\ \A i \in 1..(Len(l) - 1) : l[i].score >= l[i + 1].score
           /\ Cardinality({i \in 1..Len(l) : l[i].id = board.me}) <= 1
           /\ isUserInTop10 # YouRowShown
           /\ YouRowShown => \A i \in 1..Len(l) : board.userRank[1] > l[i].rank

\* C30, the part about the list alone
C30_ListRanked ==
    (board # None /\ ListShown) =>
        LET l == board.leaderboard
        IN /\ \A i \in 1..Len(l) : l[i].rank = i
           /\ \A i \in 1..(Len(l) - 1) : l[i].score >= l[i + 1].score
           /\ ~(isUserInTop10 /\ YouRowShown)

====
